---- MODULE Spec2Model ----
(***************************************************************************)
(* LibraryAdmin: the directory scanner (bookrepo.py), the file item        *)
(* (fileitem.py), the SQLite summary snapshot (database.py) and the Mongo  *)
(* document store (mongo.py).                                              *)
(*                                                                         *)
(* Strings are sequences of atoms.  An atom is one character ("%", "2",    *)
(* "f", "/", ".", "a", "n") or an indivisible extension word ("pdf",       *)
(* "PDF", "tar", "gz", "tgz", "txt"); no word contains a dot, a slash or   *)
(* starts with one of the characters of the escape token, so suffix tests, *)
(* slicing and replacement on atoms agree with the same operations on the  *)
(* characters.                                                             *)
(***************************************************************************)
EXTENDS Integers, Sequences, FiniteSets, TLC

VARIABLES
    fs,         \* the library: slot -> [present, content, mtime]
    fsOps,      \* number of changes made to the library so far
    store,      \* books collection of mongo.py: a set of documents
    last,       \* what the last run of checknew()/cleanup() did
    stable,     \* a checknew() completed cleanly and nothing happened since
    count,      \* BookRepo.count   (None or a Counter)
    sumcount,   \* BookRepo.sumcount
    total,      \* BookRepo.total
    gen,        \* the generator returned by find_books(), if one is alive
    trav,       \* a scan followed step by step: position, faults, items emitted
    dbfile,     \* book-list.sqlite
    con,        \* Database.con
    txn,        \* rows written through con and not committed (None: no transaction)
    listed,     \* what the last call of books() did
    filename,   \* classifier: the file name under classification
    classified, \* classifier: the result, once computed
    frag,       \* escaping: an on-disk file name fragment
    escaped     \* escaping: the title and the fragment rebuilt from it

vars == <<fs, fsOps, store, last, stable, count, sumcount, total, gen, trav,
          dbfile, con, txn, listed, filename, classified, frag, escaped>>

\* F applied to the value of x, x being evaluated once
With(x, F(_)) == CHOOSE y \in { F(v) : v \in {x} } : TRUE

\* Python's None, and a value that is not None.
None == <<>>
Some(v) == <<v>>
Val(o) == o[1]

-----------------------------------------------------------------------------
(* Bounds *)

\* longest file name handed to the classifier, in atoms
MaxNameLen == 4
\* longest file name fragment handed to the escaping, in characters
MaxFragLen == 6
\* number of changes made to the library during a run of the model
MaxFsOps == 1
\* number of files that vanish or cannot be read during one pass
MaxFaults == 1

-----------------------------------------------------------------------------
(* str helpers *)

EndsWith(s, suf) ==
    /\ Len(suf) <= Len(s)
    /\ SubSeq(s, Len(s) - Len(suf) + 1, Len(s)) = suf

RECURSIVE Replace(_, _, _)
\* str.replace(old, new): every non-overlapping occurrence, left to right
Replace(s, old, new) ==
    IF Len(s) < Len(old) THEN s
    ELSE IF SubSeq(s, 1, Len(old)) = old
         THEN new \o Replace(SubSeq(s, Len(old) + 1, Len(s)), old, new)
         ELSE <<Head(s)>> \o Replace(Tail(s), old, new)

RECURSIVE ReplaceFirst(_, _, _)
\* faulty variant: replaces the first occurrence only
ReplaceFirst(s, old, new) ==
    IF Len(s) < Len(old) THEN s
    ELSE IF SubSeq(s, 1, Len(old)) = old
         THEN new \o SubSeq(s, Len(old) + 1, Len(s))
         ELSE <<Head(s)>> \o ReplaceFirst(Tail(s), old, new)

RECURSIVE Concat(_)
Concat(ss) == IF ss = <<>> THEN <<>> ELSE Head(ss) \o Concat(Tail(ss))

\* all strings over the atoms A of length 1..n
Strings(A, n) == UNION { [1..k -> A] : k \in 1..n }

-----------------------------------------------------------------------------
(* fileitem.py and the escaping of "/" *)

Token == <<"%", "2", "f">>
Slash == <<"/">>
extsep == <<".">>

\* faulty variant: decodes the first token only
FileItemTitleFirst(file) == ReplaceFirst(file, Token, Slash)

\* FileItem.title(): self.file.replace("%2f", "/")
FileItemTitle(file) == Replace(file, Token, Slash)

\* faulty variant: encodes the first slash only
EncodeTitleFirst(t) == ReplaceFirst(t, Slash, Token)

\* doc['title'].replace("/", "%2f") of docpath(), cleanup() and item_file()
EncodeTitle(t) == Replace(t, Slash, Token)

-----------------------------------------------------------------------------
(* mimetypes, as far as _find_in uses it: an excerpt of the tables *)

NoType == ""

Lower(a) == IF a = "PDF" THEN "pdf" ELSE a
LowerStr(s) == [i \in DOMAIN s |-> Lower(s[i])]

\* posixpath.splitext on a name without "/": the extension starts at the last
\* dot, unless only dots precede that dot
SplitExt(p) ==
    LET dots == { i \in DOMAIN p : p[i] = "." }
    IN  IF dots = {} THEN [base |-> p, ext |-> <<>>]
        ELSE LET d == CHOOSE i \in dots : \A j \in dots : j <= i
             IN  IF \E j \in 1..(d - 1) : p[j] # "."
                 THEN [base |-> SubSeq(p, 1, d - 1), ext |-> SubSeq(p, d, Len(p))]
                 ELSE [base |-> p, ext |-> <<>>]

InSuffixMap(ext) == ext = <<".", "tgz">>
SuffixMap(ext) == <<".", "tar", ".", "gz">>

EncodingsMap(ext) ==
    IF ext = <<".", "gz">> THEN "gzip" ELSE NoType

TypesMap(ext) ==
    CASE ext = <<".", "pdf">> -> "application/pdf"
      [] ext = <<".", "tar">> -> "application/x-tar"
      [] ext = <<".", "txt">> -> "text/plain"
      [] ext = <<".", "text">> -> "text/plain"
      [] OTHER -> NoType

\* types_map_inv: the extensions of a type, in the table's order
TypesMapInv(type) ==
    CASE type = "application/pdf" -> << <<".", "pdf">> >>
      [] type = "application/x-tar" -> << <<".", "tar">> >>
      [] type = "text/plain" -> << <<".", "txt">>, <<".", "text">> >>
      [] OTHER -> <<>>

RECURSIVE MapSuffix(_)
\* while ext.lower() in suffix_map: splitext(base + suffix_map[ext.lower()])
MapSuffix(be) ==
    IF InSuffixMap(LowerStr(be.ext))
    THEN MapSuffix(SplitExt(be.base \o SuffixMap(LowerStr(be.ext))))
    ELSE be

\* mimetypes.guess_type(filename, False): (type, encoding)
GuessType(name) ==
    LET be  == MapSuffix(SplitExt(name))
        enc == EncodingsMap(be.ext)
        be2 == IF enc # NoType THEN SplitExt(be.base) ELSE be
    IN  [mimetype |-> TypesMap(LowerStr(be2.ext)), encoding |-> enc]

\* mimetypes.guess_all_extensions(mimetype, False)
GuessAllExtensions(type) == TypesMapInv(type)

-----------------------------------------------------------------------------
(* bookrepo.py: the classification of a file name in _find_in *)

\* faulty variant: does not append ".gz" to the candidates of a gzip encoded file
CandidatesNoGz(g) == GuessAllExtensions(g.mimetype)

\* the candidate suffixes of a guess, ".gz" appended for the gzip encoding
Candidates(g) ==
    LET exts == GuessAllExtensions(g.mimetype)
    IN  IF g.encoding = "gzip"
        THEN [i \in DOMAIN exts |-> exts[i] \o <<".", "gz">>]
        ELSE exts

\* for ext in extensions: if filename.endswith(ext): ...; break
FirstMatch(name, exts) ==
    LET hits == { i \in DOMAIN exts : EndsWith(name, exts[i]) }
    IN  IF hits = {} THEN 0 ELSE CHOOSE i \in hits : \A j \in hits : i <= j

\* the split at the first matching candidate, if there is one
SplitAt(name, exts, i) ==
    IF i = 0 THEN [file |-> name, type |-> <<>>]
    ELSE [file |-> SubSeq(name, 1, Len(name) - Len(exts[i])), type |-> Tail(exts[i])]

\* the (file, type) pair that _find_in puts into the FileItem
ClassifyName(name) ==
    IF GuessType(name).mimetype = NoType THEN [file |-> name, type |-> <<>>]
    ELSE SplitAt(name, Candidates(GuessType(name)),
                 FirstMatch(name, Candidates(GuessType(name))))

-----------------------------------------------------------------------------
(* The library on disk *)

\* book_dirs, the declared roots, and the directories below them.  Directory
\* paths are sequences of segments: os.path.join(directory, subdir) is Append
\* and directory.split('/')[0] is Head.
book_dirs == << <<"A">>, <<"B">> >>
Dirs == { <<"A">>, <<"A", "R">>, <<"A", "S">>, <<"B">> }

EscName == <<"a", "%", "2", "f", "b", ".", "pdf">>

\* The places where a regular file may exist.  Every directory holds at most
\* one file, so the order in which os.scandir lists the files of a directory
\* is determined.  The first two have the same name in different directories.
Slots == { [dir |-> <<"A">>, name |-> EscName],
           [dir |-> <<"B">>, name |-> EscName],
           [dir |-> <<"A", "S">>, name |-> <<"n">>] }

\* st_size of a file with content c: contents 1 and 2 have the same length
FileSize(c) == IF c = 3 THEN 2 ELSE 1

Absent == [present |-> FALSE, content |-> 0, mtime |-> 0]
File(c, m) == [present |-> TRUE, content |-> c, mtime |-> m]

\* What a file may hold, as (content, mtime): against File(1, 1) the second
\* differs in mtime alone, the third in size alone, and the fourth in content
\* alone (same size, same mtime).
Versions == { File(1, 1), File(2, 2), File(3, 1), File(2, 1) }
NoFiles == [s \in Slots |-> Absent]

\* os.path.exists / os.stat succeed on a path
Exists(fsys, path) == path \in DOMAIN fsys /\ fsys[path].present

\* the code point of a character (of the first character, for a word)
Ord(a) ==
    CASE a = "%" -> 37 [] a = "." -> 46 [] a = "/" -> 47 [] a = "2" -> 50
      [] a = "A" -> 65 [] a = "B" -> 66 [] a = "R" -> 82 [] a = "S" -> 83
      [] a = "a" -> 97 [] a = "b" -> 98 [] a = "f" -> 102 [] a = "n" -> 110
      [] OTHER -> 112

-----------------------------------------------------------------------------
(* bookrepo.py: find_books and _find_in *)

\* a Counter: a function on the keys it holds; a missing key reads as 0
EmptyCounter == <<>>
Get(cnt, k) == IF k \in DOMAIN cnt THEN cnt[k] ELSE 0
Incr(cnt, k, n) == [x \in DOMAIN cnt \cup {k} |-> IF x = k THEN Get(cnt, k) + n ELSE cnt[x]]
RECURSIVE SumValues(_)
SumValues(cnt) ==
    IF DOMAIN cnt = {} THEN 0
    ELSE LET k == CHOOSE x \in DOMAIN cnt : TRUE
         IN  cnt[k] + SumValues([x \in DOMAIN cnt \ {k} |-> cnt[x]])

RECURSIVE SortedDesc(_)
\* faulty variant: the subdirectories come in descending order
SortedDesc(names) ==
    IF names = {} THEN <<>>
    ELSE LET n == CHOOSE x \in names : \A y \in names : Ord(x) >= Ord(y)
         IN  <<n>> \o SortedDesc(names \ {n})

RECURSIVE Sorted(_)
\* sorted(subdirs)
Sorted(names) ==
    IF names = {} THEN <<>>
    ELSE LET n == CHOOSE x \in names : \A y \in names : Ord(x) <= Ord(y)
         IN  <<n>> \o Sorted(names \ {n})

RECURSIVE WalkFrom(_)
\* the directories _find_in(directory) enters, in order: the directory, then
\* the subtree of each of its subdirectories in sorted order
WalkFrom(directory) ==
    LET subdirs == Sorted({ d[Len(d)] : d \in { x \in Dirs :
                       Len(x) = Len(directory) + 1 /\ SubSeq(x, 1, Len(directory)) = directory } })
    IN  <<directory>> \o
        Concat([i \in DOMAIN subdirs |-> WalkFrom(Append(directory, subdirs[i]))])

\* for directory in self.book_dirs: yield from self._find_in(directory)
Walk == Concat([i \in DOMAIN book_dirs |-> WalkFrom(book_dirs[i])])

NoItem == [dir |-> <<>>, file |-> <<>>, type |-> <<>>, size |-> 0, mtime |-> 0,
           entry |-> [dir |-> <<>>, name |-> <<>>]]

\* the classification of the names that occur in the library
Classified == [s \in Slots |-> ClassifyName(s.name)]

\* faulty variant: the size of the file is not taken from its stat
FileItemOfNoSize(fsys, s) ==
    LET c == Classified[s]
    IN  [dir |-> s.dir, file |-> c.file, type |-> c.type,
         size |-> 0, mtime |-> fsys[s].mtime, entry |-> s]

\* the FileItem _find_in yields for the directory entry s
FileItemOf(fsys, s) ==
    LET c == Classified[s]
    IN  [dir |-> s.dir, file |-> c.file, type |-> c.type,
         size |-> FileSize(fsys[s].content), mtime |-> fsys[s].mtime, entry |-> s]

RECURSIVE Advance(_, _, _)
\* One resumption of the generator: it runs from entering the k-th directory
\* of the walk to its next yield, or to its end.  Entering a directory
\* registers it in count; a file found there is counted and yielded.
Advance(fsys, cnt, k) ==
    IF k > Len(Walk) THEN [done |-> TRUE, count |-> cnt, k |-> k, item |-> NoItem]
    ELSE LET directory == Walk[k]
             files == { s \in Slots : s.dir = directory /\ fsys[s].present }
             Enter(c0) ==
                 IF files = {} THEN Advance(fsys, c0, k + 1)
                 ELSE LET s == CHOOSE x \in files : TRUE
                      IN  [done |-> FALSE, count |-> Incr(c0, directory, 1), k |-> k + 1,
                           item |-> FileItemOf(fsys, s)]
         IN  With(IF directory \in DOMAIN cnt THEN cnt ELSE Incr(cnt, directory, 0), Enter)

RECURSIVE Drain(_, _, _, _)
Drain(fsys, cnt, k, items) ==
    With(Advance(fsys, cnt, k),
         LAMBDA a : IF a.done THEN [items |-> items, count |-> a.count]
                    ELSE Drain(fsys, a.count, a.k, Append(items, a.item)))

\* find_books() consumed to its end over an unchanging library: the items
\* yielded and the count it leaves
FindBooks(fsys) == Drain(fsys, EmptyCounter, 1, <<>>)

-----------------------------------------------------------------------------
(* mongo.py: the books collection *)

\* hashlib.md5(...).hexdigest() of a content
Digest(c) == <<"md5", c>>

\* What happens to a file while checknew() works on its item: nothing, the
\* file vanishes after it was yielded by the scan, or reading it fails.
Events == {"ok", "vanish", "unreadable"}

\* filehash(path): the digest, or OSError (ok = FALSE)
FileHash(fsys, path, e) ==
    IF Exists(fsys, path) /\ e # "unreadable"
    THEN [ok |-> TRUE, hash |-> Digest(fsys[path].content)]
    ELSE [ok |-> FALSE, hash |-> None]

\* the _id of a new document
NewId(st) == CHOOSE i \in 1..(Cardinality(st) + 1) : \A d \in st : d.id # i

\* Books.remove: delete_one({'_id': doc['_id']})
Remove(st, doc) == { d \in st : d.id # doc.id }

\* update_one({'_id': doc['_id']}, {'$set': fields})
UpdateOne(st, doc, size, mtime, hash) ==
    { IF d.id = doc.id THEN [d EXCEPT !.size = size, !.mtime = mtime, !.hash = hash]
      ELSE d : d \in st }

\* faulty variant: the document is stored without its hash
InsertNoHash(st, fsys, item, e) ==
    [store |-> st \cup { [id |-> NewId(st), title |-> FileItemTitle(item.file),
                           type |-> item.type, directory |-> item.dir,
                           size |-> item.size, mtime |-> item.mtime, hash |-> None] },
     did |-> "inserted"]

\* Books.insert: the document is stored unless hashing fails
Insert(st, fsys, item, e) ==
    LET h == FileHash(fsys, item.entry, e)
    IN  IF ~h.ok THEN [store |-> st, did |-> "failed"]
        ELSE [store |-> st \cup { [id |-> NewId(st), title |-> FileItemTitle(item.file),
                                   type |-> item.type, directory |-> item.dir,
                                   size |-> item.size, mtime |-> item.mtime,
                                   hash |-> h.hash] },
              did |-> "inserted"]

\* faulty variant: the document of a changed file is removed
UpdateRemoveChanged(st, fsys, doc, item, e) ==
    LET path == item.entry
    IN  IF ~Exists(fsys, path) THEN [store |-> Remove(st, doc), did |-> "removed"]
        ELSE IF doc.size # FileSize(fsys[path].content) \/ doc.mtime # fsys[path].mtime
        THEN [store |-> Remove(st, doc), did |-> "removed"]
        ELSE [store |-> st, did |-> "none"]

\* faulty variant: the hash is computed and written for every document
UpdateRehash(st, fsys, doc, item, e) ==
    LET path == item.entry
        h    == FileHash(fsys, path, e)
    IN  IF ~Exists(fsys, path) THEN [store |-> Remove(st, doc), did |-> "removed"]
        ELSE IF ~h.ok THEN [store |-> st, did |-> "raised"]
        ELSE IF doc.size # FileSize(fsys[path].content) \/ doc.mtime # fsys[path].mtime
        THEN [store |-> UpdateOne(st, doc, FileSize(fsys[path].content),
                                  fsys[path].mtime, h.hash),
              did |-> "updated"]
        ELSE [store |-> UpdateOne(st, doc, doc.size, doc.mtime, h.hash), did |-> "hashed"]

\* faulty variant: a change of mtime alone is not seen
UpdateSizeOnly(st, fsys, doc, item, e) ==
    LET path == item.entry
        h    == FileHash(fsys, path, e)
    IN  IF ~Exists(fsys, path) THEN [store |-> Remove(st, doc), did |-> "removed"]
        ELSE IF doc.size # FileSize(fsys[path].content)
        THEN IF h.ok
             THEN [store |-> UpdateOne(st, doc, FileSize(fsys[path].content),
                                       fsys[path].mtime, h.hash),
                   did |-> "updated"]
             ELSE [store |-> st, did |-> "raised"]
        ELSE [store |-> st, did |-> "none"]

\* Books.update: did is what it did, "raised" when filehash raised OSError
Update(st, fsys, doc, item, e) ==
    LET path == item.entry
        h    == FileHash(fsys, path, e)
    IN  IF ~Exists(fsys, path) THEN [store |-> Remove(st, doc), did |-> "removed"]
        ELSE IF doc.size # FileSize(fsys[path].content) \/ doc.mtime # fsys[path].mtime
        THEN IF h.ok
             THEN [store |-> UpdateOne(st, doc, FileSize(fsys[path].content),
                                       fsys[path].mtime, h.hash),
                   did |-> "updated"]
             ELSE [store |-> st, did |-> "raised"]
        ELSE IF doc.hash = None
        THEN IF h.ok
             THEN [store |-> UpdateOne(st, doc, doc.size, doc.mtime, h.hash),
                   did |-> "hashed"]
             ELSE [store |-> st, did |-> "raised"]
        ELSE [store |-> st, did |-> "none"]

\* faulty variant: the directory of the document is not compared
SameDirAny(docs, item) == docs

\* if doc['directory'] == item.dir
SameDir(docs, item) == { d \in docs : d.directory = item.dir }

\* faulty variant: the title of the query is the file name as it is on disk
FindRaw(st, item) == { d \in st : d.title = item.file /\ d.type = item.type }

\* self.books.find({'title': item.title(), 'type': item.type})
Find(st, item) ==
    LET t == FileItemTitle(item.file)
    IN  { d \in st : d.title = t /\ d.type = item.type }

\* the record of a run
NoRun == [op |-> "none", rerun |-> FALSE, inserted |-> {}, updated |-> {},
          removed |-> {}, hashed |-> {}, mismatch |-> {}, failed |-> FALSE,
          aborted |-> FALSE]

\* the state a run works on: the record of the run, the library, the
\* collection, and the count and position of the scan
RunState(fsys, st) ==
    [inserted |-> {}, updated |-> {}, removed |-> {}, hashed |-> {}, mismatch |-> {},
     failed |-> FALSE, aborted |-> FALSE,
     fs |-> fsys, store |-> st, count |-> EmptyCounter, k |-> 1]

RunRecord(r, op, rerun) ==
    [op |-> op, rerun |-> rerun, inserted |-> r.inserted, updated |-> r.updated,
     removed |-> r.removed, hashed |-> r.hashed, mismatch |-> r.mismatch,
     failed |-> r.failed, aborted |-> r.aborted]

RECURSIVE UpdateAll(_, _, _, _)
\* for doc in docs: if doc['directory'] == item.dir: self.update(doc, item)
UpdateAll(r, docs, item, e) ==
    IF docs = {} \/ r.aborted THEN r
    ELSE LET doc == CHOOSE d \in docs : \A x \in docs : d.id <= x.id
             Apply(u) ==
                 [r EXCEPT !.store = u.store,
                    !.updated = IF u.did = "updated" THEN @ \cup {item.entry} ELSE @,
                    !.hashed = IF u.did \in {"updated", "hashed"}
                               THEN @ \cup {item.entry} ELSE @,
                    !.removed = IF u.did = "removed" THEN @ \cup {doc} ELSE @,
                    !.failed = @ \/ u.did = "raised",
                    !.aborted = u.did = "raised"]
         IN  With(With(Update(r.store, r.fs, doc, item, e), Apply),
                  LAMBDA r1 : UpdateAll(r1, docs \ {doc}, item, e))

\* the body of the loop of checknew() for one item
Reconcile(r, item, e) ==
    LET fs1  == IF e = "vanish" THEN [r.fs EXCEPT ![item.entry] = Absent] ELSE r.fs
        r0   == [r EXCEPT !.fs = fs1]
        same == SameDir(Find(r.store, item), item)
    IN  IF same # {} THEN UpdateAll(r0, same, item, e)
        ELSE LET i == Insert(r.store, fs1, item, e)
             IN  [r0 EXCEPT !.store = i.store,
                    !.inserted = IF i.did = "inserted" THEN @ \cup {item.entry} ELSE @,
                    !.hashed = IF i.did = "inserted" THEN @ \cup {item.entry} ELSE @,
                    !.failed = @ \/ i.did = "failed"]

RECURSIVE RunChecknew(_, _)
\* for item in self.find_books(): ... ; the scan advances as the loop asks for
\* the next item, and an OSError raised by update() ends the loop
RunChecknew(r, ev) ==
    LET Body(a) ==
            IF a.done THEN [r EXCEPT !.count = a.count, !.k = a.k]
            ELSE With(Reconcile([r EXCEPT !.count = a.count, !.k = a.k],
                                a.item, ev[a.item.entry]),
                      LAMBDA r1 : IF r1.aborted THEN r1 ELSE RunChecknew(r1, ev))
    IN  With(Advance(r.fs, r.count, r.k), Body)

\* Books.docpath and the path cleanup() builds
DocPath(doc) ==
    [dir |-> doc.directory, name |-> EncodeTitle(doc.title) \o extsep \o doc.type]

\* faulty variant: the stored hash is replaced by the hash of the file
MismatchRehash(st, doc, fhash) == UpdateOne(st, doc, doc.size, doc.mtime, fhash)

\* if doc['hash'] != fhash: print(...) -- the collection is not written
Mismatch(st, doc, fhash) == st

RECURSIVE RunCleanup(_, _, _, _)
\* for doc in list(self.books.find()): ... ; bad are the files whose reading
\* fails; filehash raising OSError ends the loop
RunCleanup(r, docs, check_hash, bad) ==
    IF docs = {} \/ r.aborted THEN r
    ELSE LET doc  == CHOOSE d \in docs : \A x \in docs : d.id <= x.id
             path == DocPath(doc)
             this == IF ~Exists(r.fs, path)
                     THEN [r EXCEPT !.store = Remove(@, doc), !.removed = @ \cup {doc}]
                     ELSE IF check_hash
                     THEN IF path \in bad
                          THEN [r EXCEPT !.failed = TRUE, !.aborted = TRUE]
                          ELSE IF doc.hash # Digest(r.fs[path].content)
                          THEN [r EXCEPT !.hashed = @ \cup {path},
                                  !.mismatch = @ \cup {doc.id},
                                  !.store = Mismatch(@, doc, Digest(r.fs[path].content))]
                          ELSE [r EXCEPT !.hashed = @ \cup {path}]
                     ELSE r
         IN  With(this, LAMBDA r1 : RunCleanup(r1, docs \ {doc}, check_hash, bad))

-----------------------------------------------------------------------------
(* Values of the parts of the state a specification does not use *)

NoGen == [alive |-> FALSE, started |-> FALSE, k |-> 1]
NoTrav == [pc |-> "idle", k |-> 1, errs |-> <<>>, emitted |-> <<>>, visited |-> <<>>]
\* the snapshot file: whether it exists, whether it holds the table books,
\* and the committed rows of the table
NoDb == [exists |-> FALSE, table |-> FALSE, rows |-> <<>>]
\* what the last operation on the snapshot did: the rows it yielded, the scans
\* it ran, and for a rebuild the rows of the snapshot it found (prev)
NoList == [op |-> "none", cached |-> FALSE, rows |-> <<>>, scans |-> 0, prev |-> <<>>]

LibraryIdle == fs = NoFiles /\ fsOps = 0
SyncIdle == store = {} /\ last = NoRun /\ stable = FALSE
RepoIdle == count = None /\ sumcount = None /\ total = None /\ gen = NoGen /\ trav = NoTrav
DbIdle == dbfile = NoDb /\ con = None /\ txn = None /\ listed = NoList
ClassifierIdle == filename = <<>> /\ classified = None
EscapingIdle == frag = <<>> /\ escaped = None

syncVars == <<store, last, stable>>
repoVars == <<count, sumcount, total, gen, trav>>
dbVars == <<dbfile, con, txn, listed>>
pureVars == <<filename, classified, frag, escaped>>

-----------------------------------------------------------------------------
(* The library changes under the program *)

\* a library the program may find when it starts
InitFs == [Slots -> {Absent, File(1, 1)}]

\* a file is created or rewritten
WriteFile ==
    \E s \in Slots, f \in Versions :
        /\ fsOps < MaxFsOps
        /\ fs[s] # f
        /\ fs' = [fs EXCEPT ![s] = f]
        /\ fsOps' = fsOps + 1
        /\ last' = NoRun
        /\ stable' = FALSE
        /\ listed' = NoList
        /\ UNCHANGED <<store, repoVars, dbfile, con, txn, pureVars>>

\* a file is deleted
DeleteFile ==
    \E s \in Slots :
        /\ fsOps < MaxFsOps
        /\ fs[s].present
        /\ fs' = [fs EXCEPT ![s] = Absent]
        /\ fsOps' = fsOps + 1
        /\ last' = NoRun
        /\ stable' = FALSE
        /\ listed' = NoList
        /\ UNCHANGED <<store, repoVars, dbfile, con, txn, pureVars>>

-----------------------------------------------------------------------------
(* mongo.py: checknew() and cleanup(), one run at a time *)

\* the files that are hit by an event, MaxFaults of them at most
Faults == { ev \in [Slots -> Events] :
              Cardinality({ s \in Slots : ev[s] # "ok" }) <= MaxFaults }

Checknew ==
    \E ev \in Faults :
      /\ \A s \in Slots : ev[s] # "ok" => fs[s].present
      /\ \E r \in { RunChecknew(RunState(fs, store), ev) } :
        LET vanished == { s \in Slots : fs[s].present /\ ~r.fs[s].present }
        IN  /\ fsOps + Cardinality(vanished) <= MaxFsOps
            /\ fs' = r.fs
            /\ fsOps' = fsOps + Cardinality(vanished)
            /\ store' = r.store
            /\ last' = RunRecord(r, "checknew", stable)
            /\ stable' = (~r.failed /\ ~r.aborted /\ vanished = {})
            /\ count' = Some(r.count)
            /\ UNCHANGED <<sumcount, total, gen, trav, dbVars, pureVars>>

Cleanup ==
    \E check_hash \in BOOLEAN, bad \in SUBSET Slots :
      /\ ~check_hash => bad = {}
      /\ Cardinality(bad) <= MaxFaults
      /\ \A s \in bad : fs[s].present
      /\ \E r \in { RunCleanup(RunState(fs, store), store, check_hash, bad) } :
            /\ store' = r.store
            /\ last' = RunRecord(r, IF check_hash THEN "check" ELSE "cleanup", FALSE)
            /\ stable' = FALSE
            /\ UNCHANGED <<fs, fsOps, repoVars, dbVars, pureVars>>

InitSync ==
    /\ fs \in InitFs
    /\ fsOps = 0
    /\ SyncIdle /\ RepoIdle /\ DbIdle /\ ClassifierIdle /\ EscapingIdle

NextSync == WriteFile \/ DeleteFile \/ Checknew \/ Cleanup

SpecSync == InitSync /\ [][NextSync]_vars

-----------------------------------------------------------------------------
(* Claims about checknew() and cleanup() *)

TitleOf(s) == FileItemTitle(Classified[s].file)
TypeOf(s) == Classified[s].type

\* the documents of the collection st that have the identity of the file s
DocsFor(st, s) ==
    { d \in st : d.directory = s.dir /\ d.title = TitleOf(s) /\ d.type = TypeOf(s) }

\* the file a document was made from
SlotOf(d) == CHOOSE s \in Slots : d \in DocsFor({d}, s)

Present(fsys) == { s \in Slots : fsys[s].present }

\* C1: a checknew() that completed without a hashing failure leaves the
\* collection stable; a second checknew() that starts from there, with the
\* library unchanged and again no hashing failure, inserts nothing, updates
\* nothing and leaves every document as it was.
C1_Idempotent ==
    [][ (stable /\ last'.op = "checknew" /\ stable')
        => /\ store' = store
           /\ last'.inserted = {} /\ last'.updated = {} /\ last'.removed = {} ]_vars

C1_Witness ==
    /\ last.op = "checknew" /\ last.rerun /\ stable
    /\ Cardinality(store) >= 2

\* the documents whose backing file does not exist
Stale(fsys, st) == { d \in st : ~fsys[SlotOf(d)].present }

\* C2: when exactly one document has lost its backing file, cleanup() removes
\* that document and no other.
C2_CleanupRemovesExactlyStale ==
    [][ (last'.op = "cleanup" /\ Cardinality(Stale(fs, store)) = 1)
        => store' = store \ Stale(fs, store) ]_vars

\* C3: after a checknew() without failure, two files with the same title and
\* type in different directories have one document each, the two documents
\* are distinct, and each carries the size and mtime of its own file, and
\* the hash of its own file if this run hashed it.
C3_DirectoryScoped ==
    (last.op = "checknew" /\ stable) =>
        \A s1, s2 \in Present(fs) :
            (s1.dir # s2.dir /\ TitleOf(s1) = TitleOf(s2) /\ TypeOf(s1) = TypeOf(s2)) =>
                \E d1 \in store, d2 \in store :
                    /\ d1.id # d2.id
                    /\ DocsFor(store, s1) = {d1} /\ DocsFor(store, s2) = {d2}
                    /\ d1.size = FileSize(fs[s1].content) /\ d1.mtime = fs[s1].mtime
                    /\ d2.size = FileSize(fs[s2].content) /\ d2.mtime = fs[s2].mtime
                    /\ s1 \in last.hashed => d1.hash = Digest(fs[s1].content)
                    /\ s2 \in last.hashed => d2.hash = Digest(fs[s2].content)

C3_Witness ==
    /\ last.op = "checknew" /\ stable
    /\ \E s1, s2 \in last.inserted :
          /\ s1.dir # s2.dir /\ TitleOf(s1) = TitleOf(s2) /\ TypeOf(s1) = TypeOf(s2)
          /\ fs[s1] # fs[s2]

\* the document d as update() rewrites it from the live file f
Refreshed(d, f) ==
    [d EXCEPT !.size = FileSize(f.content), !.mtime = f.mtime, !.hash = Digest(f.content)]

Changed(d, f) == d.size # FileSize(f.content) \/ d.mtime # f.mtime

\* C4: a checknew() without failure rewrites the size, the mtime and the hash
\* of every document whose file differs from it in size or in mtime, from the
\* live file, and leaves every other document as it was.
C4_ChangeDetected ==
    [][ (last'.op = "checknew" /\ stable')
        => \A d \in store :
              IF fs[SlotOf(d)].present /\ Changed(d, fs[SlotOf(d)])
              THEN /\ Refreshed(d, fs[SlotOf(d)]) \in store'
                   /\ SlotOf(d) \in last'.updated
              ELSE d \in store' ]_vars

\* a document was updated after its file changed in mtime alone, another
\* after its file changed in size alone
C4_Witness ==
    /\ last.op = "checknew" /\ stable
    /\ \E s \in last.updated :
          /\ fs[s] = File(2, 2)
          /\ \E d \in DocsFor(store, s) : d.hash = Digest(2) /\ d.mtime = 2 /\ d.size = 1

\* C5: checknew() on an empty collection, without failure, leaves exactly one
\* document for every file of the scan, with the title, type, directory, size
\* and mtime of the file and the digest of its content; and no document of
\* the collection ever has a null hash.
C5_InsertPass ==
    /\ [](\A d \in store : d.hash # None)
    /\ [][ (store = {} /\ last'.op = "checknew" /\ stable')
           => /\ Cardinality(store') = Cardinality(Present(fs))
              /\ \A s \in Present(fs) :
                    \E d \in store' :
                       /\ d.title = TitleOf(s) /\ d.type = TypeOf(s)
                       /\ d.directory = s.dir
                       /\ d = Refreshed(d, fs[s]) ]_vars

C5_Witness ==
    /\ last.op = "checknew" /\ stable
    /\ last.inserted = Slots
    /\ Cardinality(store) = Cardinality(Slots)

C18_NoUnnecessaryRehash ==
    [][ last'.op = "checknew"
        => /\ \A s \in last'.hashed :
                 \/ DocsFor(store, s) = {}
                 \/ \E d \in DocsFor(store, s) : Changed(d, fs'[s]) \/ d.hash = None
           /\ \A s \in Present(fs') : \A d \in DocsFor(store, s) :
                 (~Changed(d, fs'[s]) /\ d.hash # None)
                     => d \in store' /\ s \notin last'.hashed ]_vars

\* a checknew() that rehashed one changed file and left alone the document
\* of an unchanged one
C18_Witness ==
    /\ last.op = "checknew" /\ last.updated # {}
    /\ \E s \in Present(fs) :
          /\ s \notin last.hashed
          /\ \E d \in DocsFor(store, s) : ~Changed(d, fs[s]) /\ d.hash # None

Ids(st) == { d.id : d \in st }

\* C19, as claimed: checknew() deletes no document, so the collection is not
\* smaller after it than before.
C19_ChecknewNeverDeletes ==
    [][ last'.op = "checknew"
        => Ids(store) \subseteq Ids(store') /\ Cardinality(store') >= Cardinality(store) ]_vars

\* C19, amended: checknew() deletes a document only when the file of the
\* scanned record it matches is gone when the record is reconciled (the file
\* was there when the pass began and is not there when it ends); cleanup()
\* deletes a document only when no file exists at the path built from it.
\* A checknew() during which no file vanishes leaves every document in the
\* collection.
C19_DeletedOnlyWhenFileGone ==
    [][ /\ last'.op = "checknew" =>
              \A d \in store : d.id \notin Ids(store') =>
                  fs[SlotOf(d)].present /\ ~fs'[SlotOf(d)].present
        /\ last'.op \in {"cleanup", "check"} =>
              \A d \in store : d.id \notin Ids(store') => ~Exists(fs, DocPath(d)) ]_vars

\* a checknew() removed the document of a file that vanished under it
C19_Witness ==
    /\ last.op = "checknew" /\ last.removed # {}
    /\ \E d \in last.removed : ~fs[SlotOf(d)].present /\ d \notin store

\* C20: the path that cleanup() and docpath() build from the document that
\* checknew() has stored for a scanned file is the path of that file,
\* whatever its classification.
C20_PathReconstruction ==
    last.op = "checknew" =>
        \A s \in last.inserted : \A d \in DocsFor(store, s) : DocPath(d) = s

\* C12: a pass in which reading a file for hashing failed (checknew() on the
\* insert or the update path, cleanup(check_hash=True)) is not ended by that
\* failure: it goes on to the records that follow.
C12_HashFailureIsolated ==
    (last.op \in {"checknew", "check"} /\ last.failed) => ~last.aborted

\* d1 and d2 have the same (title, type, directory)
SameIdentity(d1, d2) ==
    d1.title = d2.title /\ d1.type = d2.type /\ d1.directory = d2.directory

\* C21: from an empty collection, whatever runs of checknew() and cleanup()
\* follow one another and however the library changes between and during
\* them, the collection never holds two documents with the same title, type
\* and directory.
C21_IdentityUnique ==
    \A d1, d2 \in store : SameIdentity(d1, d2) => d1.id = d2.id

\* a checknew() over a collection that already held the documents of two
\* files with the same title and type in different directories: it found
\* both, inserted nothing, and the two documents are still the only ones
C21_Witness ==
    /\ last.op = "checknew" /\ last.rerun /\ last.inserted = {}
    /\ \E d1, d2 \in store :
          /\ d1.id # d2.id /\ d1.title = d2.title /\ d1.type = d2.type
          /\ d1.directory # d2.directory
          /\ store = {d1, d2}
          /\ fs[SlotOf(d1)].present /\ fs[SlotOf(d2)].present

-----------------------------------------------------------------------------
(* bookrepo.py: the summary counters *)

\* sum of the counts of the directories whose first path segment is root
RootSum(cnt, root) ==
    SumValues([d \in { x \in DOMAIN cnt : Head(x) = root } |-> cnt[d]])

\* self.sumcount += Counter({directory.split('/')[0]: cnt}) for every entry
\* of count; the += of a Counter keeps the positive counts only
SumByRoot(cnt) ==
    [r \in { Head(d) : d \in { x \in DOMAIN cnt : RootSum(cnt, Head(x)) > 0 } }
        |-> RootSum(cnt, r)]

\* BookRepo.summary(): its return value and the sumcount and total it leaves
RepoSummary(cnt, sc, tot) ==
    IF cnt = None THEN [ok |-> FALSE, sumcount |-> sc, total |-> tot]
    ELSE IF tot = None \/ sc = None
    THEN [ok |-> TRUE, sumcount |-> Some(SumByRoot(Val(cnt))),
          total |-> Some(SumValues(Val(cnt)))]
    ELSE [ok |-> TRUE, sumcount |-> sc, total |-> tot]

\* find_books() is called: a generator is made, none of its body runs yet
FindBooksCall ==
    /\ gen # [alive |-> TRUE, started |-> FALSE, k |-> 1]
    /\ gen' = [alive |-> TRUE, started |-> FALSE, k |-> 1]
    /\ UNCHANGED <<fs, fsOps, syncVars, count, sumcount, total, trav, dbVars, pureVars>>

\* The caller asks the generator for its next item.  The first resumption
\* runs self.count = Counter().  A resumption that finds count cleared fails
\* on "directory not in self.count" and the generator is dead.
NextItem ==
    /\ gen.alive
    /\ LET cnt0 == IF gen.started THEN count ELSE Some(EmptyCounter)
       IN  IF cnt0 = None
           THEN gen' = NoGen /\ UNCHANGED count
           ELSE \E a \in { Advance(fs, Val(cnt0), gen.k) } :
                   /\ count' = Some(a.count)
                   /\ gen' = IF a.done THEN NoGen
                             ELSE [alive |-> TRUE, started |-> TRUE, k |-> a.k]
    /\ UNCHANGED <<fs, fsOps, syncVars, sumcount, total, trav, dbVars, pureVars>>

\* BookRepo.summary()
Summary ==
    \E r \in { RepoSummary(count, sumcount, total) } :
        /\ sumcount' = r.sumcount
        /\ total' = r.total
        /\ UNCHANGED <<fs, fsOps, syncVars, count, gen, trav, dbVars, pureVars>>

\* BookRepo.clear_summary()
ClearSummary ==
    /\ count' = None
    /\ sumcount' = None
    /\ total' = None
    /\ UNCHANGED <<fs, fsOps, syncVars, gen, trav, dbVars, pureVars>>

InitRepo ==
    /\ fs \in InitFs
    /\ fsOps = 0
    /\ SyncIdle /\ RepoIdle /\ DbIdle /\ ClassifierIdle /\ EscapingIdle

NextRepo ==
    WriteFile \/ DeleteFile \/ FindBooksCall \/ NextItem \/ Summary \/ ClearSummary

SpecRepo == InitRepo /\ [][NextRepo]_vars

\* C8: whenever the counters are set, total is the sum of all counts and
\* sumcount of a root is the sum of the counts of the directories below it.
C8_CountersInvariant ==
    (count # None /\ sumcount # None /\ total # None) =>
        /\ Val(total) = SumValues(Val(count))
        /\ \A i \in DOMAIN book_dirs :
              Get(Val(sumcount), Head(book_dirs[i])) = RootSum(Val(count), Head(book_dirs[i]))

-----------------------------------------------------------------------------
(* bookrepo.py: one scan followed step by step, with directories that fail *)

\* What goes wrong in a directory: nothing; os.scandir raises when it opens
\* the directory; the enumeration raises after it has listed the entries; or
\* dirent.stat() raises for the file of the directory.
ScanErrors == {"ok", "open", "enum", "stat"}

ScanFaults == { e \in [Dirs -> ScanErrors] :
                  Cardinality({ d \in Dirs : e[d] # "ok" }) <= MaxFaults }

\* d lies below the directory anc
IsBelow(d, anc) == Len(d) > Len(anc) /\ SubSeq(d, 1, Len(anc)) = anc

\* faulty variant: the OSError ends the whole scan
SkipToEnd(k) == Len(Walk) + 1

\* except OSError in _find_in(Walk[k]): the rest of that call is given up,
\* its subdirectories included, and the caller's loop goes on
SkipSubtree(k) ==
    CHOOSE j \in (k + 1)..(Len(Walk) + 1) :
        /\ j <= Len(Walk) => ~IsBelow(Walk[j], Walk[k])
        /\ \A i \in (k + 1)..(j - 1) : IsBelow(Walk[i], Walk[k])

\* faulty variant: a directory is registered only when a file is counted
RegisterLate(cnt, directory) == cnt

\* if directory not in self.count: self.count[directory] = 0
Register(cnt, directory) ==
    IF directory \in DOMAIN cnt THEN cnt ELSE Incr(cnt, directory, 0)

\* find_books() is called and resumed for the first time
TravStart ==
    /\ trav.pc \in {"idle", "done"}
    /\ \E e \in ScanFaults :
          trav' = [pc |-> "enter", k |-> 1, errs |-> e, emitted |-> <<>>, visited |-> <<>>]
    /\ count' = Some(EmptyCounter)
    /\ UNCHANGED <<fs, fsOps, syncVars, sumcount, total, gen, dbVars, pureVars>>

\* _find_in(directory) is entered: the directory is registered
TravEnter ==
    /\ trav.pc = "enter" /\ trav.k <= Len(Walk)
    /\ count' = Some(Register(Val(count), Walk[trav.k]))
    /\ trav' = [trav EXCEPT !.pc = "list", !.visited = Append(@, Walk[trav.k])]
    /\ UNCHANGED <<fs, fsOps, syncVars, sumcount, total, gen, dbVars, pureVars>>

\* the try block of _find_in for the directory: its file is counted and
\* yielded, and the scan goes on to the subdirectories, unless an OSError
\* ends the block
TravList ==
    /\ trav.pc = "list"
    /\ LET directory == Walk[trav.k]
           e     == trav.errs[directory]
           files == { s \in Slots : s.dir = directory /\ fs[s].present }
           next  == IF e = "ok" \/ (e = "stat" /\ files = {})
                    THEN trav.k + 1 ELSE SkipSubtree(trav.k)
       IN  IF e = "open" \/ files = {}
           THEN /\ trav' = [trav EXCEPT !.pc = "enter", !.k = next]
                /\ UNCHANGED count
           ELSE \E s \in files :
                  /\ count' = Some(Incr(Val(count), directory, 1))
                  /\ trav' = [trav EXCEPT !.pc = "enter", !.k = next,
                                 !.emitted = IF e = "stat" THEN @
                                             ELSE Append(@, FileItemOf(fs, s))]
    /\ UNCHANGED <<fs, fsOps, syncVars, sumcount, total, gen, dbVars, pureVars>>

\* the loop over book_dirs is over
TravEnd ==
    /\ trav.pc = "enter" /\ trav.k > Len(Walk)
    /\ trav' = [trav EXCEPT !.pc = "done"]
    /\ UNCHANGED <<fs, fsOps, syncVars, count, sumcount, total, gen, dbVars, pureVars>>

InitScan ==
    /\ fs \in InitFs
    /\ fsOps = 0
    /\ SyncIdle /\ RepoIdle /\ DbIdle /\ ClassifierIdle /\ EscapingIdle

NextScan == TravStart \/ TravEnter \/ TravList \/ TravEnd

SpecScan == InitScan /\ [][NextScan]_vars

\* the directories in which something failed
FailedDirs ==
    { d \in Dirs : \/ trav.errs[d] \in {"open", "enum"}
                   \/ trav.errs[d] = "stat" /\ \E s \in Present(fs) : s.dir = d }

Emitted == { trav.emitted[i].entry : i \in DOMAIN trav.emitted }

\* C13: a scan in which a directory D failed comes to its end, and it has
\* yielded every file that lies neither in D nor below D.
C13_ScanErrorsRecoverable ==
    /\ trav.pc = "done" =>
          \A s \in Present(fs) :
              (\A D \in FailedDirs : s.dir # D /\ ~IsBelow(s.dir, D)) => s \in Emitted
    /\ trav.pc = "enter" /\ trav.k <= Len(Walk) =>
          \A D \in FailedDirs : ~IsBelow(Walk[trav.k], D)

\* the first root could not be opened, and the scan has yielded the file of
\* the second root and no other, though the first root and a directory below
\* it hold files
C13_Witness ==
    /\ trav.pc = "done" /\ trav.errs[<<"A">>] = "open"
    /\ Present(fs) = Slots
    /\ Emitted = { s \in Slots : s.dir = <<"B">> }

\* the place of a root among the declared roots
RootIndex(d) == CHOOSE i \in DOMAIN book_dirs : book_dirs[i] = <<Head(d)>>

RECURSIVE NameLess(_, _)
\* x < y for two paths below the same root, segment by segment: a directory
\* comes before everything below it, siblings come in the order of their names
NameLess(x, y) ==
    IF y = <<>> THEN FALSE
    ELSE IF x = <<>> THEN TRUE
    ELSE IF Head(x) = Head(y) THEN NameLess(Tail(x), Tail(y))
    ELSE Ord(Head(x)) < Ord(Head(y))

\* the directory x is scanned before the directory y
ScannedBefore(x, y) ==
    \/ RootIndex(x) < RootIndex(y)
    \/ RootIndex(x) = RootIndex(y) /\ NameLess(Tail(x), Tail(y))

\* C16: the directories are entered, and the records emitted, in this order:
\* the roots as declared; a directory before everything below it, so that
\* its own files come before the files of its descendants; the subdirectories
\* of a directory in ascending order of name, one whole subtree after the
\* other.
C16_TraversalOrder ==
    /\ \A i, j \in DOMAIN trav.visited :
          i < j => ScannedBefore(trav.visited[i], trav.visited[j])
    /\ \A i, j \in DOMAIN trav.emitted :
          i < j => /\ ScannedBefore(trav.emitted[i].dir, trav.emitted[j].dir)
                   /\ ~IsBelow(trav.emitted[i].dir, trav.emitted[j].dir)

\* a complete scan of the whole library without a failure
C16_Witness ==
    /\ trav.pc = "done"
    /\ Len(trav.visited) = Cardinality(Dirs)
    /\ Len(trav.emitted) = Cardinality(Slots)

Visited == { trav.visited[i] : i \in DOMAIN trav.visited }

\* C17: every directory the scan has entered, empty and unreadable ones
\* included, is a key of count; when a directory has just been entered its
\* count is 0 and none of its files has been emitted; and when the scan is
\* over, a directory without a file has count 0.
C17_DirectoryRegistered ==
    trav.pc # "idle" =>
        /\ Visited \subseteq DOMAIN Val(count)
        /\ \A i \in DOMAIN trav.emitted : trav.emitted[i].dir \in DOMAIN Val(count)
        /\ trav.pc = "list" =>
              /\ Val(count)[Walk[trav.k]] = 0
              /\ \A i \in DOMAIN trav.emitted : trav.emitted[i].dir # Walk[trav.k]
        /\ trav.pc = "done" =>
              \A d \in Visited : (\A s \in Present(fs) : s.dir # d) => Val(count)[d] = 0

\* a scan is over in which an empty directory could not be opened; it is a
\* key of count like the other directories
C17_Witness ==
    /\ trav.pc = "done" /\ trav.errs[<<"A", "R">>] = "open"
    /\ DOMAIN Val(count) = Dirs
    /\ Val(count)[<<"A", "R">>] = 0
    /\ Len(trav.emitted) = Cardinality(Slots)

\* the number of records the scan has emitted for the directory d
EmittedIn(d) == Cardinality({ i \in DOMAIN trav.emitted : trav.emitted[i].dir = d })

\* C22: when a scan has been consumed to its end, the count of every
\* directory is the number of records emitted for that directory, also when
\* the stat of a file or the enumeration of a directory failed during the
\* scan.
C22_CountsMatchEmitted ==
    trav.pc = "done" => \A d \in DOMAIN Val(count) : Val(count)[d] = EmittedIn(d)

-----------------------------------------------------------------------------
(* database.py: the snapshot book-list.sqlite *)

Open == Some("connection")

\* Database.find_books: (type, dir, title, fsize, mtime) of an item
RowOf(item) ==
    [type |-> item.type, dir |-> item.dir, title |-> FileItemTitle(item.file),
     fsize |-> item.size, mtime |-> item.mtime]

RECURSIVE StrLess(_, _)
\* s < t for two strings, as SQLite compares text
StrLess(s, t) ==
    IF t = <<>> THEN FALSE
    ELSE IF s = <<>> THEN TRUE
    ELSE IF Head(s) = Head(t) THEN StrLess(Tail(s), Tail(t))
    ELSE Ord(Head(s)) < Ord(Head(t))

\* faulty variant: the rows come in the order they were inserted
OrderByRowid(rows) == rows

RECURSIVE OrderByTitle(_)
\* order by title: rows of the same title stay in the order of insertion
OrderByTitle(rows) ==
    IF rows = <<>> THEN <<>>
    ELSE LET i == CHOOSE x \in DOMAIN rows :
                     /\ \A y \in DOMAIN rows : ~StrLess(rows[y].title, rows[x].title)
                     /\ \A y \in 1..(x - 1) : rows[y].title # rows[x].title
         IN  <<rows[i]>> \o
             OrderByTitle(SubSeq(rows, 1, i - 1) \o SubSeq(rows, i + 1, Len(rows)))

\* select type, dir, title from books order by title
Select(rows) ==
    LET o == OrderByTitle(rows)
    IN  [i \in DOMAIN o |-> [type |-> o[i].type, dir |-> o[i].dir, title |-> o[i].title]]

\* Database.create() when the table does not exist yet: the snapshot and the
\* count that its scan leaves
CreateDb(fsys) ==
    LET scan == FindBooks(fsys)
    IN  [dbfile |-> [exists |-> TRUE, table |-> TRUE,
                     rows |-> [i \in DOMAIN scan.items |-> RowOf(scan.items[i])]],
         count |-> scan.count]

\* the rows a select through the connection sees: the committed rows and the
\* rows the connection has written in its open transaction t
Visible(db, t) == IF t = None THEN db.rows ELSE db.rows \o Val(t)

\* Database.books() iterated to its end: the rows it yields, the snapshot
\* and the count it leaves, and the number of scans it ran
BooksCall(fsys, db, t, cnt) ==
    IF ~db.exists
    THEN LET c == CreateDb(fsys)
         IN  [dbfile |-> c.dbfile, count |-> Some(c.count), scans |-> 1,
              rows |-> Select(c.dbfile.rows)]
    ELSE [dbfile |-> db, count |-> cnt, scans |-> 0, rows |-> Select(Visible(db, t))]

RECURSIVE Tally(_, _)
\* for item in rows: self.count[item[1]] += 1
Tally(cnt, rows) ==
    IF rows = <<>> THEN cnt
    ELSE Tally(Incr(cnt, Head(rows).dir, 1), Tail(rows))

\* faulty variant: the snapshot file is left in place
RemoveFileKept(db) == db

\* os.remove(self.db_file), errors ignored
RemoveFile(db) == NoDb

\* Database(db_dir, book_dirs): a new object over the same library
NewDatabase ==
    /\ count' = None /\ sumcount' = None /\ total' = None
    /\ con' = None
    /\ txn' = None
    /\ listed' = [NoList EXCEPT !.op = "init"]
    /\ UNCHANGED <<fs, fsOps, syncVars, gen, trav, dbfile, pureVars>>

\* Database.remove()
DbRemove ==
    /\ con' = None
    /\ txn' = None
    /\ count' = None /\ sumcount' = None /\ total' = None
    /\ dbfile' = RemoveFile(dbfile)
    /\ listed' = [NoList EXCEPT !.op = "remove"]
    /\ UNCHANGED <<fs, fsOps, syncVars, gen, trav, pureVars>>

\* Database.create(): "create table books" fails when the table exists,
\* and the connection stays open
DbCreate ==
    /\ IF dbfile.table
       THEN /\ con' = Open
            /\ listed' = [NoList EXCEPT !.op = "create failed"]
            /\ UNCHANGED <<dbfile, count, txn>>
       ELSE \E c \in { CreateDb(fs) } :
               /\ dbfile' = c.dbfile
               /\ count' = Some(c.count)
               /\ con' = None
               /\ txn' = None
               /\ listed' = [NoList EXCEPT !.op = "create", !.scans = 1]
    /\ UNCHANGED <<fs, fsOps, syncVars, sumcount, total, gen, trav, pureVars>>

\* book_db.remove(); book_db.create(): the rebuild of the snapshot
DbRebuild ==
    \E d0 \in { RemoveFile(dbfile) } :
        /\ IF d0.table
           THEN /\ con' = Open
                /\ txn' = None
                /\ dbfile' = d0
                /\ count' = None
                /\ listed' = [NoList EXCEPT !.op = "rebuild failed"]
           ELSE \E c \in { CreateDb(fs) } :
                   /\ dbfile' = c.dbfile
                   /\ count' = Some(c.count)
                   /\ con' = None
                   /\ txn' = None
                   /\ listed' = [NoList EXCEPT !.op = "rebuild", !.scans = 1,
                                    !.prev = IF dbfile.exists THEN Some(dbfile.rows) ELSE None]
        /\ sumcount' = None /\ total' = None
        /\ UNCHANGED <<fs, fsOps, syncVars, gen, trav, pureVars>>

\* Database.books(), iterated to its end
DbBooks ==
    /\ IF dbfile.exists /\ ~dbfile.table
       THEN \* the select raises "no such table: books"
            /\ con' = Open
            /\ listed' = [NoList EXCEPT !.op = "books failed"]
            /\ UNCHANGED <<dbfile, count, txn>>
       ELSE \E b \in { BooksCall(fs, dbfile, txn, count) } :
            /\ dbfile' = b.dbfile
            /\ count' = b.count
            /\ con' = Open
            /\ txn' = IF dbfile.exists THEN txn ELSE None
            /\ listed' = [NoList EXCEPT !.op = "books", !.rows = b.rows, !.scans = b.scans]
    /\ UNCHANGED <<fs, fsOps, syncVars, sumcount, total, gen, trav, pureVars>>

\* Database.summary()
DbSummary ==
    \E s1 \in { RepoSummary(count, sumcount, total) } :
        IF s1.ok
        THEN /\ sumcount' = s1.sumcount
             /\ total' = s1.total
             /\ listed' = [NoList EXCEPT !.op = "summary", !.cached = TRUE]
             /\ UNCHANGED <<fs, fsOps, syncVars, count, gen, trav, dbfile, con, txn, pureVars>>
        ELSE IF dbfile.exists /\ ~dbfile.table
        THEN \* self.count = Counter(), then the select of books() raises
             /\ count' = Some(EmptyCounter)
             /\ con' = Open
             /\ listed' = [NoList EXCEPT !.op = "summary failed"]
             /\ UNCHANGED <<fs, fsOps, syncVars, sumcount, total, gen, trav, dbfile, txn,
                            pureVars>>
        ELSE \E b \in { BooksCall(fs, dbfile, txn, Some(EmptyCounter)) } :
             \E cnt \in { Tally(Val(b.count), b.rows) } :
             \E s2 \in { RepoSummary(Some(cnt), sumcount, total) } :
                /\ count' = Some(cnt)
                /\ sumcount' = s2.sumcount
                /\ total' = s2.total
                /\ dbfile' = b.dbfile
                /\ con' = Open
                /\ txn' = IF dbfile.exists THEN txn ELSE None
                /\ listed' = [NoList EXCEPT !.op = "summary", !.rows = b.rows,
                                              !.scans = b.scans]
                /\ UNCHANGED <<fs, fsOps, syncVars, gen, trav, pureVars>>

InitDb ==
    /\ fs \in InitFs
    /\ fsOps = 0
    /\ SyncIdle /\ RepoIdle /\ DbIdle /\ ClassifierIdle /\ EscapingIdle

NextDb ==
    \/ WriteFile \/ DeleteFile \/ NewDatabase \/ DbRemove \/ DbCreate \/ DbRebuild
    \/ DbBooks \/ DbSummary

SpecDb == InitDb /\ [][NextDb]_vars

Range(rows) == { rows[i] : i \in DOMAIN rows }

RowsIn(rows, d) == Cardinality({ i \in DOMAIN rows : rows[i].dir = d })

\* C9: after a summary() that found no counters cached, count of a directory
\* is the number of snapshot rows of that directory, and total is the number
\* of snapshot rows.
C9_SummaryFromRows ==
    (listed.op = "summary" /\ ~listed.cached) =>
        /\ count # None /\ total # None
        /\ \A d \in Dirs : Get(Val(count), d) = RowsIn(dbfile.rows, d)
        /\ Val(total) = Len(dbfile.rows)

Occurs(rows, x) == Cardinality({ i \in DOMAIN rows : rows[i] = x })
SameRows(a, b) ==
    /\ Len(a) = Len(b)
    /\ \A i \in DOMAIN a : Occurs(a, a[i]) = Occurs(b, a[i])
Ascending(rows) ==
    \A i, j \in DOMAIN rows : i < j => ~StrLess(rows[j].title, rows[i].title)
Projected(rows) ==
    [i \in DOMAIN rows |-> [type |-> rows[i].type, dir |-> rows[i].dir, title |-> rows[i].title]]

\* C10: books() without a snapshot runs one scan, leaves its records as the
\* snapshot and yields one row for each of them; with a snapshot it runs no
\* scan, leaves the snapshot alone and yields its rows; in both cases the
\* rows come in ascending order of title.
C10_LazyList ==
    [][ listed'.op = "books"
        => /\ Ascending(listed'.rows)
           /\ IF dbfile.exists
              THEN /\ listed'.scans = 0
                   /\ dbfile' = dbfile
                   /\ SameRows(listed'.rows, Projected(dbfile.rows))
              ELSE /\ listed'.scans = 1
                   /\ dbfile'.exists
                   /\ SameRows(listed'.rows,
                               [i \in DOMAIN FindBooks(fs).items |->
                                   [type |-> FindBooks(fs).items[i].type,
                                    dir |-> FindBooks(fs).items[i].dir,
                                    title |-> FileItemTitle(FindBooks(fs).items[i].file)]]) ]_vars

\* books() made the snapshot from a library of three files and yielded the
\* rows in another order than the scan found them
C10_Witness ==
    /\ listed.op = "books" /\ listed.scans = 1
    /\ Len(listed.rows) = Cardinality(Slots)
    /\ listed.rows # Projected(dbfile.rows)

-----------------------------------------------------------------------------
(* database.py: create() stopped by an error of the storage layer *)

RECURSIVE Consume(_, _, _, _, _)
\* find_books() resumed n times, or to its end: the items and the count
Consume(fsys, cnt, k, items, n) ==
    IF n = 0 THEN [items |-> items, count |-> cnt]
    ELSE With(Advance(fsys, cnt, k),
              LAMBDA a : IF a.done THEN [items |-> items, count |-> a.count]
                         ELSE Consume(fsys, a.count, a.k, Append(items, a.item), n - 1))

\* the steps of create() after sqlite.connect has made the file
CreateSteps == {"table", "insert", "index", "commit"}

\* create() on a file without the table raises at one of its steps: at
\* "insert" the error comes with the (j+1)-th item, j rows are written.  The
\* table is committed as soon as it is made; the rows are written in a
\* transaction that stays open on self.con, which create() leaves open.  A
\* failed commit may keep the transaction or roll it back.
DbCreateFails ==
    /\ ~dbfile.table
    /\ \E step \in CreateSteps, j \in 0..Cardinality(Slots), kept \in BOOLEAN :
        \E c \in { Consume(fs, EmptyCounter, 1, <<>>,
                            IF step = "insert" THEN j + 1 ELSE Cardinality(Slots) + 1) } :
          /\ step = "insert" => Len(c.items) = j + 1
          /\ step # "insert" => j = 0
          /\ step # "commit" => kept
          /\ con' = Open
          /\ IF step = "table"
             THEN /\ dbfile' = [exists |-> TRUE, table |-> FALSE, rows |-> <<>>]
                  /\ txn' = None
                  /\ UNCHANGED count
             ELSE /\ dbfile' = [exists |-> TRUE, table |-> TRUE, rows |-> <<>>]
                  /\ txn' = IF kept
                            THEN Some([i \in 1..(IF step = "insert" THEN j ELSE Len(c.items))
                                          |-> RowOf(c.items[i])])
                            ELSE None
                  /\ count' = Some(c.count)
          /\ listed' = [NoList EXCEPT !.op = "create failed", !.scans = 1]
    /\ UNCHANGED <<fs, fsOps, syncVars, sumcount, total, gen, trav, pureVars>>

InitDbFault ==
    /\ fs \in InitFs
    /\ fsOps = 0
    /\ SyncIdle /\ RepoIdle /\ DbIdle /\ ClassifierIdle /\ EscapingIdle

NextDbFault ==
    NewDatabase \/ DbRemove \/ DbCreate \/ DbCreateFails \/ DbBooks

SpecDbFault == InitDbFault /\ [][NextDbFault]_vars

\* C15: the library does not change here, so a complete listing has one row
\* for every file of the library; every listing that books() yields, also
\* after a create() that failed, is complete.
C15_NoPartialSnapshot ==
    listed.op = "books" =>
        /\ Len(listed.rows) = Cardinality(Present(fs))
        /\ Range(listed.rows) =
              { [type |-> TypeOf(s), dir |-> s.dir, title |-> TitleOf(s)] : s \in Present(fs) }

\* the (type, dir, title, fsize, mtime) tuple of the file s of the library
TupleOf(fsys, s) ==
    [type |-> TypeOf(s), dir |-> s.dir, title |-> TitleOf(s),
     fsize |-> FileSize(fsys[s].content), mtime |-> fsys[s].mtime]

\* C11: a rebuild (remove() then create()) that finds a previous snapshot
\* succeeds and leaves a snapshot with exactly one row for every file of the
\* library, holding its (type, dir, title, size, mtime), and no other row.
C11_WholesaleRebuild ==
    [][ (listed'.op \in {"rebuild", "rebuild failed"} /\ dbfile.exists)
        => /\ listed'.op = "rebuild"
           /\ dbfile'.exists
           /\ Len(dbfile'.rows) = Cardinality(Present(fs))
           /\ Range(dbfile'.rows) = { TupleOf(fs, s) : s \in Present(fs) } ]_vars

\* a rebuild found a snapshot with a row that the new snapshot does not have
C11_Witness ==
    /\ listed.op = "rebuild" /\ listed.prev # None
    /\ Range(Val(listed.prev)) \ Range(dbfile.rows) # {}
    /\ dbfile.rows # <<>>

-----------------------------------------------------------------------------
(* The classifier on its own: every file name up to MaxNameLen atoms *)

NameAtoms == {"a", ".", "pdf", "PDF", "tar", "gz", "tgz", "txt"}

InitClassify ==
    /\ filename \in Strings(NameAtoms, MaxNameLen)
    /\ classified = None
    /\ frag = <<>> /\ escaped = None
    /\ LibraryIdle /\ SyncIdle /\ RepoIdle /\ DbIdle

Classify ==
    /\ classified = None
    /\ classified' = Some(ClassifyName(filename))
    /\ UNCHANGED <<fs, fsOps, syncVars, repoVars, dbVars, filename, frag, escaped>>

NextClassify == Classify

SpecClassify == InitClassify /\ [][NextClassify]_vars

\* C6: a file name for which the MIME lookup returns a content type is
\* classified into a title and a type with title + "." + type = file name.
C6_RoundTrip ==
    (classified # None /\ GuessType(filename).mimetype # NoType) =>
        FileItemTitle(Val(classified).file) \o extsep \o Val(classified).type = filename

-----------------------------------------------------------------------------
(* The escaping on its own: every fragment up to MaxFragLen characters *)

FragAtoms == {"%", "2", "f", "a"}

InitEscape ==
    /\ frag \in Strings(FragAtoms, MaxFragLen)
    /\ escaped = None
    /\ filename = <<>> /\ classified = None
    /\ LibraryIdle /\ SyncIdle /\ RepoIdle /\ DbIdle

\* the fragment is decoded into a title as FileItem.title() does, and the
\* title is encoded again as docpath(), cleanup() and item_file() do
Escape ==
    /\ escaped = None
    /\ escaped' = Some([title |-> FileItemTitle(frag),
                        frag |-> EncodeTitle(FileItemTitle(frag))])
    /\ UNCHANGED <<fs, fsOps, syncVars, repoVars, dbVars, filename, classified, frag>>

NextEscape == Escape

SpecEscape == InitEscape /\ [][NextEscape]_vars

\* C7: decoding the encoding of a title gives the title back, for every title
\* the program makes from a file name; and encoding the title made from an
\* on-disk fragment gives the fragment back.
C7_EscapeRoundTrip ==
    escaped # None =>
        /\ FileItemTitle(EncodeTitle(Val(escaped).title)) = Val(escaped).title
        /\ Val(escaped).frag = frag

\* a title with two slashes
C7_Witness ==
    /\ escaped # None
    /\ Cardinality({ i \in DOMAIN Val(escaped).title : Val(escaped).title[i] = "/" }) = 2

====
